---- MODULE Spec2Model ----
(***************************************************************************)
(* Model of dbx/utils/watchdog/tunnel_manager.py: the SSHConfig registry   *)
(* (get / set / remove over an ssh config held in memory and saved to a    *)
(* file) and the TunnelManager reconciliation loop (tunnel_routine,        *)
(* initialize_tunnel, _prepare_sshd, _check_tunnel, _parse_url).           *)
(*                                                                         *)
(* Spec and FairSpec run the loop of one instance, CtorSpec puts the       *)
(* constructor in front of it, RegSpec calls the registry alone, ParseSpec *)
(* calls _parse_url alone, FleetSpec runs two instances on one event loop. *)
(*                                                                         *)
(* Python strings are sequences of one-character strings, so that          *)
(* str.replace, str.split, str() and int() are computed and not assumed.   *)
(* An Optional value is a sequence of length 0 (None) or 1.                *)
(***************************************************************************)
EXTENDS Integers, Sequences, FiniteSets, TLC

VARIABLES
    pc,           \* position of tunnel_routine (or the name of the other specification)
    caller,       \* branch of tunnel_routine that called initialize_tunnel
    status,       \* TunnelManager._status
    tunnel_info,  \* TunnelManager.tunnel_info, an Optional TunnelInfo
    conf,         \* SSHConfig._conf: the host blocks held in memory
    disk,         \* the host blocks of the backing file ~/.ssh/config
    new_key,      \* the key pair last returned by generate_key_pair (0: none)
    local_key,    \* the private key in ~/.ssh/<cluster_id> (0: no file)
    remote_key,   \* the key pair installed on the remote node (0: none)
    trace,        \* the calls of the current iteration, each with its outcome
    reg_failed,   \* history: some registry set/remove call has raised
    waited,       \* history: consecutive iterations that found the context not running
    slept,        \* history: the time units the current iteration has been suspended
    stable,       \* environment: from now on the context is running and no call fails
    reg_last,     \* history: the last registry call made under RegSpec
    tunnels,      \* the tunnel processes running on the remote node
    established,  \* history: tunnel_info was assigned by initialize_tunnel of this process
    parsed,       \* under ParseSpec: the argument and the outcome of _parse_url
    fleet         \* under FleetSpec: the instances that share one event loop

vars == <<pc, caller, status, tunnel_info, conf, disk, new_key, local_key,
          remote_key, trace, reg_failed, waited, slept, stable, reg_last,
          tunnels, established, parsed, fleet>>

(***************************************************************************)
(* Bounds of the model.                                                    *)
(***************************************************************************)
\* key pairs are numbered 1..MaxKeys; a fresh pair differs from those in use
MaxKeys == 3
\* the count of consecutive waiting iterations saturates here
MaxWait == 2
\* the count of tunnel processes on the remote node saturates here
MaxTunnels == 2

(***************************************************************************)
(* Program constants.                                                      *)
(***************************************************************************)
SleepNormal == 5
SleepAfterFailure == 2

None == <<>>
Some(x) == <<x>>

\* TunnelManager._cluster_id of the instance under study, and a second host
\* alias that other tools or instances keep in the same ssh config
cluster_id == "c1"
other_id == "c2"
ClusterIds == {cluster_id, other_id}

(***************************************************************************)
(* Python string primitives.                                               *)
(***************************************************************************)
Digits == <<"0", "1", "2", "3", "4", "5", "6", "7", "8", "9">>
IsDigit(c) == \E i \in 1..10 : Digits[i] = c
DigitVal(c) == (CHOOSE i \in 1..10 : Digits[i] = c) - 1
IsSpace(c) == c \in {" ", "\n", "\t"}

IsPrefix(p, s) == Len(p) <= Len(s) /\ SubSeq(s, 1, Len(p)) = p

\* s.replace(old, new): every non-overlapping occurrence, left to right
RECURSIVE StrReplace(_, _, _)
StrReplace(s, old, new) ==
    IF s = <<>> THEN <<>>
    ELSE IF IsPrefix(old, s)
         THEN new \o StrReplace(SubSeq(s, Len(old) + 1, Len(s)), old, new)
         ELSE <<Head(s)>> \o StrReplace(Tail(s), old, new)

\* s.split(sep) for a one-character sep: a list of Len >= 1
RECURSIVE StrSplit(_, _)
StrSplit(s, sep) ==
    LET hits == {i \in 1..Len(s) : s[i] = sep}
    IN  IF hits = {} THEN <<s>>
        ELSE LET i == CHOOSE j \in hits : \A k \in hits : j <= k
             IN  <<SubSeq(s, 1, i - 1)>> \o StrSplit(SubSeq(s, i + 1, Len(s)), sep)

\* s.strip()
RECURSIVE LStrip(_)
LStrip(s) == IF s # <<>> /\ IsSpace(Head(s)) THEN LStrip(Tail(s)) ELSE s
RECURSIVE RStrip(_)
RStrip(s) ==
    IF s # <<>> /\ IsSpace(s[Len(s)]) THEN RStrip(SubSeq(s, 1, Len(s) - 1)) ELSE s
Strip(s) == RStrip(LStrip(s))

\* the digits of a non-negative integer
RECURSIVE NatToStr(_)
NatToStr(n) ==
    IF n < 10 THEN <<Digits[n + 1]>>
    ELSE NatToStr(n \div 10) \o <<Digits[(n % 10) + 1]>>

\* str(n) for an int
IntToStr(n) == IF n < 0 THEN <<"-">> \o NatToStr(0 - n) ELSE NatToStr(n)

\* the value of a run of digits and single underscores
RECURSIVE DigitsVal(_, _)
DigitsVal(s, acc) ==
    IF s = <<>> THEN acc
    ELSE IF Head(s) = "_" THEN DigitsVal(Tail(s), acc)
         ELSE DigitsVal(Tail(s), 10 * acc + DigitVal(Head(s)))

\* the body int() accepts after the sign: digits, single underscores between them
IsIntBody(s) ==
    /\ s # <<>>
    /\ \A i \in 1..Len(s) : IsDigit(s[i]) \/ s[i] = "_"
    /\ IsDigit(s[1]) /\ IsDigit(s[Len(s)])
    /\ \A i \in 1..(Len(s) - 1) : ~(s[i] = "_" /\ s[i + 1] = "_")

Unsigned(s) == IF s # <<>> /\ Head(s) \in {"+", "-"} THEN Tail(s) ELSE s

\* int(s) raises ValueError unless this holds
IsInt(s) == IsIntBody(Unsigned(Strip(s)))

\* int(s)
StrToInt(s) ==
    LET t == Strip(s)
        v == DigitsVal(Unsigned(t), 0)
    IN  IF t # <<>> /\ Head(t) = "-" THEN 0 - v ELSE v

(***************************************************************************)
(* TunnelInfo and TunnelManager._parse_url.                                *)
(***************************************************************************)
TunnelInfo(host, port, private_key_file) ==
    [host |-> host, port |-> port, private_key_file |-> private_key_file]

\* str(pathlib.Path("~/.ssh/%s" % cluster_id).expanduser())
private_key_path(id) == <<"~/.ssh", id>>

SchemePrefix == <<"t", "c", "p", ":", "/", "/">>

UrlPartsKeepScheme(url) == StrSplit(url, ":")

\* the list that _parse_url unpacks into (host, port)
UrlParts(url) == StrSplit(StrReplace(url, SchemePrefix, <<>>), ":")

\* _parse_url raises ValueError (unpacking, or int()) unless this holds
ParseUrlOk(url) == Len(UrlParts(url)) = 2 /\ IsInt(UrlParts(url)[2])

\* _parse_url(url) when it returns: (host, int(port))
ParseUrl(url) == <<UrlParts(url)[1], StrToInt(UrlParts(url)[2])>>

(***************************************************************************)
(* SSHConfig: the registry. A host block is a record of the alias and its  *)
(* keys; conf is the list of blocks in file order.                         *)
(***************************************************************************)
user == "root"

HostBlockDefaultPort(id, info) ==
    [host |-> id, hostname |-> info.host, port |-> <<"2", "2">>,
     user |-> user, identityfile |-> info.private_key_file]

HostBlock(id, info) ==
    [host |-> id, hostname |-> info.host, port |-> IntToStr(info.port),
     user |-> user, identityfile |-> info.private_key_file]

\* self._conf.hosts()
Hosts(c) == {c[i].host : i \in 1..Len(c)}

BlockOf(c, id) == c[CHOOSE i \in 1..Len(c) : c[i].host = id]

\* self._conf.host(id): the keys of the block, lower-cased; {} without a block
HostKeys(c, id) == IF id \in Hosts(c) THEN DOMAIN BlockOf(c, id) \ {"host"} ELSE {}

\* the keys SSHConfig.get reads at line 23
RequiredKeys == {"hostname", "port", "identityfile"}

\* SSHConfig.get raises KeyError at a missing key, or ValueError at
\* int(_host["port"]), when this holds; an empty dict is skipped by line 22
SSHGetRaises(c, id) ==
    /\ HostKeys(c, id) # {}
    /\ \/ ~(RequiredKeys \subseteq HostKeys(c, id))
       \/ ~IsInt(BlockOf(c, id).port)

\* SSHConfig.get(cluster_id) when it returns
SSHGet(c, id) ==
    IF HostKeys(c, id) = {} THEN None
    ELSE LET b == BlockOf(c, id)
         IN  Some(TunnelInfo(b.hostname, StrToInt(b.port), b.identityfile))

\* self._conf.set(...) of an existing host: its keys are overwritten in place
ConfUpdate(c, id, info) ==
    [i \in 1..Len(c) |-> IF c[i].host = id THEN HostBlock(id, info) ELSE c[i]]

\* self._conf.add(...): a new block is appended
ConfAdd(c, id, info) == Append(c, HostBlock(id, info))

SSHSetAlwaysAdds(c, id, info) == ConfAdd(c, id, info)

SSHSetOnlyUpdates(c, id, info) == ConfUpdate(c, id, info)

\* SSHConfig.set: the host blocks after the update or the add
SSHSet(c, id, info) ==
    IF id \in Hosts(c) THEN ConfUpdate(c, id, info) ELSE ConfAdd(c, id, info)

\* self._conf.remove(cluster_id) raises ValueError when the host has no block
SSHRemoveRaises(c, id) == id \notin Hosts(c)

\* SSHConfig.remove: the host blocks after the removal
SSHRemove(c, id) == SelectSeq(c, LAMBDA b : b.host # id)

(***************************************************************************)
(* The environment: what the calls of the loop can return.                 *)
(***************************************************************************)
Str_tcp_a_7 == <<"t", "c", "p", ":", "/", "/", "a", ":", "7">>
Str_tcp_b_40 == <<"t", "c", "p", ":", "/", "/", "b", ":", "4", "0">>
Str_tcp_a == <<"t", "c", "p", ":", "/", "/", "a">>
Str_a_7 == <<"a", ":", "7">>

\* what print(ssh_url) can print on the remote node: the url of a tunnel, or
\* (when the remote side misbehaves) one without a port or without a scheme
GoodUrls == {Str_tcp_a_7, Str_tcp_b_40}
OddUrls == {Str_tcp_a, Str_a_7}
RawUrls == IF stable THEN GoodUrls ELSE GoodUrls \cup OddUrls

\* ContextManager.status as read at the top of an iteration
CtxStatuses == IF stable THEN {"running"} ELSE {"running", "pending"}

\* a remote command, a transport call or a key generation returns, raises an
\* Exception, or is interrupted by KeyboardInterrupt (not an Exception)
Outcomes == IF stable THEN {"ok"} ELSE {"ok", "Exception", "KeyboardInterrupt"}

\* a local file operation returns or raises OSError
FileOutcomes == IF stable THEN {"ok"} ELSE {"ok", "Exception"}

\* a registry call returns, raises before it changed the blocks in memory,
\* or raises in save() after it changed them
RegOutcomes == IF stable THEN {"ok"} ELSE {"ok", "fail_pre", "fail_save"}

ExcOf(r) == IF r = "ok" THEN "ok" ELSE "Exception"

\* the ssh configs a process can find at construction
InfoA == TunnelInfo(<<"a">>, 7, private_key_path(cluster_id))
InfoB == TunnelInfo(<<"b">>, 40, private_key_path(cluster_id))
InfoOther == TunnelInfo(<<"o">>, 22, private_key_path(other_id))
\* a block for cluster_id as a person writes it: "Port 07"
HandWritten == [HostBlock(cluster_id, InfoA) EXCEPT !.port = <<"0", "7">>]
InitFiles ==
    { <<>>,
      <<HostBlock(cluster_id, InfoA)>>,
      <<HandWritten>>,
      <<HostBlock(other_id, InfoOther)>>,
      <<HostBlock(other_id, InfoOther), HostBlock(cluster_id, InfoA)>> }

Min(a, b) == IF a < b THEN a ELSE b

Log(op, o) == trace' = Append(trace, <<op, o>>)

\* a registry call whose result on the blocks in memory is newconf, ending as r
RegistryWrite(newconf, r) ==
    /\ conf' = IF r = "fail_pre" THEN conf ELSE newconf
    /\ disk' = IF r = "ok" THEN newconf ELSE disk
    /\ reg_failed' = (reg_failed \/ r # "ok")

(***************************************************************************)
(* TunnelManager.__init__                                                  *)
(***************************************************************************)
Init ==
    /\ \E f \in InitFiles :
          /\ conf = f
          /\ disk = f
          /\ tunnel_info = SSHGet(f, cluster_id)
    /\ pc = "head"
    /\ caller = "none"
    /\ status = "initializing"
    /\ new_key = 0
    /\ local_key \in (IF cluster_id \in Hosts(conf) THEN {1} ELSE {0, 1})
    /\ remote_key \in {0, 1}
    /\ trace = <<>>
    /\ reg_failed = FALSE
    /\ waited = 0
    /\ slept = 0
    /\ stable = FALSE
    /\ reg_last = <<>>
    /\ tunnels \in {0, 1}
    /\ established = FALSE
    /\ parsed = <<>>
    /\ fleet = <<>>

(***************************************************************************)
(* TunnelManager.tunnel_routine                                            *)
(***************************************************************************)
hist == <<reg_failed, reg_last, established>>
keys == <<new_key, local_key, remote_key>>
\* the state of the specifications that do not run this loop
apart == <<parsed, fleet>>
registry == <<conf, disk>>

DispatchIgnoresContext(s) ==
    /\ trace' = <<<<"context", s>>>>
    /\ slept' = 0
    /\ waited' = 0
    /\ IF tunnel_info # None
       THEN /\ status' = "checking cached tunnel url"
            /\ pc' = "probe"
            /\ caller' = "none"
       ELSE /\ status' = "initializing a plain new tunnel"
            /\ pc' = "install_libraries"
            /\ caller' = "plain"

DispatchAlwaysProbes(s) ==
    /\ trace' = <<<<"context", s>>>>
    /\ slept' = 0
    /\ caller' = "none"
    /\ IF s # "running"
       THEN /\ status' = "waiting for the context"
            /\ pc' = "sleep_wait"
            /\ waited' = IF status = "waiting for the context"
                         THEN Min(waited + 1, MaxWait) ELSE 1
       ELSE /\ waited' = IF status = "waiting for the context" THEN waited ELSE 0
            /\ status' = "checking cached tunnel url"
            /\ pc' = "probe"

\* lines 100-106, 124-125: the top of an iteration that read s from the context
Dispatch(s) ==
    /\ trace' = <<<<"context", s>>>>
    /\ slept' = 0
    /\ IF s # "running"
       THEN /\ status' = "waiting for the context"
            /\ pc' = "sleep_wait"
            /\ caller' = "none"
            /\ waited' = IF status = "waiting for the context"
                         THEN Min(waited + 1, MaxWait) ELSE 1
       ELSE /\ waited' = IF status = "waiting for the context" THEN waited ELSE 0
            /\ IF tunnel_info # None
               THEN /\ status' = "checking cached tunnel url"
                    /\ pc' = "probe"
                    /\ caller' = "none"
               ELSE /\ status' = "initializing a plain new tunnel"
                    /\ pc' = "install_libraries"
                    /\ caller' = "plain"

LoopHead ==
    /\ pc = "head"
    /\ \E s \in CtxStatuses : Dispatch(s)
    /\ UNCHANGED <<tunnel_info, registry, keys, tunnels, hist, apart, stable>>

\* line 103
SleepWait ==
    /\ pc = "sleep_wait"
    /\ pc' = "head"
    /\ slept' = slept + SleepNormal
    /\ UNCHANGED <<caller, status, tunnel_info, registry, keys, tunnels, trace, hist, apart,
                   waited, stable>>

ProbeResultSleepsFirst(o) ==
    IF o = "ok"
    THEN /\ status' = "running"
         /\ pc' = "sleep_run"
         /\ caller' = caller
    ELSE IF o = "KeyboardInterrupt"
    THEN /\ pc' = "sleep_final"
         /\ UNCHANGED <<status, caller>>
    ELSE /\ status' = "tunnel is unreachable, initializing a new one"
         /\ pc' = "sleep_final"
         /\ caller' = caller

\* lines 109-115: what follows _check_tunnel ending as o
ProbeResult(o) ==
    IF o = "ok"
    THEN /\ status' = "running"
         /\ pc' = "sleep_run"
         /\ caller' = caller
    ELSE IF o = "KeyboardInterrupt"
    THEN /\ pc' = "sleep_final"
         /\ UNCHANGED <<status, caller>>
    ELSE /\ status' = "tunnel is unreachable, initializing a new one"
         /\ pc' = "install_libraries"
         /\ caller' = "reinit"

\* lines 107-108, 174-176: the liveness probe of the cached tunnel
Probe ==
    /\ pc = "probe"
    /\ \E o \in Outcomes :
          /\ Log("probe", o)
          /\ ProbeResult(o)
    /\ UNCHANGED <<tunnel_info, registry, keys, tunnels, hist, apart, waited, slept, stable>>

\* line 110
SleepRun ==
    /\ pc = "sleep_run"
    /\ pc' = "sleep_final"
    /\ slept' = slept + SleepNormal
    /\ UNCHANGED <<caller, status, tunnel_info, registry, keys, tunnels, trace, hist, apart,
                   waited, stable>>

RaiseNotCaught(o) == pc' = "crashed"

\* lines 116-118, 126: exception o leaves initialize_tunnel
Raise(o) ==
    pc' = IF caller = "reinit" /\ o = "Exception" THEN "cleanup" ELSE "crashed"

\* the control flow after a call of initialize_tunnel that ended as o
Continue(o, next) == IF o = "ok" THEN pc' = next ELSE Raise(o)

(***************************************************************************)
(* TunnelManager.initialize_tunnel, one action per call it makes.          *)
(***************************************************************************)
\* lines 130-132
InstallLibraries ==
    /\ pc = "install_libraries"
    /\ status' = "installing libraries"
    /\ \E o \in Outcomes :
          /\ Log("install_libraries", o)
          /\ Continue(o, "stop_ngrok")
    /\ UNCHANGED <<caller, tunnel_info, registry, keys, tunnels, hist, apart, waited, slept, stable>>

KilledNothing(o) == {tunnels}

\* stop_ngrok, lines 47-50: pkill ends every tunnel process of the node; a
\* command that failed may or may not have run it
Killed(o) == IF o = "ok" THEN {0} ELSE {tunnels, 0}

\* lines 133-135
StopNgrok ==
    /\ pc = "stop_ngrok"
    /\ status' = "restarting tunnel appliance"
    /\ \E o \in Outcomes :
          /\ Log("stop_ngrok", o)
          /\ tunnels' \in Killed(o)
          /\ Continue(o, "generate_key_pair")
    /\ UNCHANGED <<caller, tunnel_info, registry, keys, hist, apart, waited, slept, stable>>

\* a pair that is neither in the local key file nor on the remote node
FreshKey == CHOOSE k \in 1..MaxKeys : k \notin {local_key, remote_key}

\* lines 136-139, 179-196
GenerateKeyPair ==
    /\ pc = "generate_key_pair"
    /\ status' = "preparing ssh keys"
    /\ \E o \in Outcomes :
          /\ Log("generate_key_pair", o)
          /\ new_key' = IF o = "ok" THEN FreshKey ELSE new_key
          /\ Continue(o, "write_local_key")
    /\ UNCHANGED <<caller, tunnel_info, registry, local_key, remote_key, tunnels,
                   hist, apart, waited, slept, stable>>

\* lines 141-147: unlink, write_bytes, chmod; an OSError can leave the old
\* file, no file, or the new file
WriteLocalKey ==
    /\ pc = "write_local_key"
    /\ \E o \in FileOutcomes :
          /\ Log("write_local_key", o)
          /\ local_key' \in (IF o = "ok" THEN {new_key} ELSE {local_key, 0, new_key})
          /\ Continue(o, "install_ssh_keys")
    /\ UNCHANGED <<caller, status, tunnel_info, registry, new_key, remote_key,
                   tunnels, hist, apart, waited, slept, stable>>

\* lines 149-154: a failed remote command may or may not have written the keys
InstallSshKeys ==
    /\ pc = "install_ssh_keys"
    /\ \E o \in Outcomes :
          /\ Log("install_ssh_keys", o)
          /\ remote_key' \in (IF o = "ok" THEN {new_key} ELSE {remote_key, new_key})
          /\ Continue(o, "generate_url")
    /\ UNCHANGED <<caller, status, tunnel_info, registry, new_key, local_key,
                   tunnels, hist, apart, waited, slept, stable>>

\* generate_url, lines 60-64: ngrok.connect starts a tunnel process; a
\* command that failed may or may not have started it
Started(o) ==
    IF o = "ok" THEN {Min(tunnels + 1, MaxTunnels)}
    ELSE {tunnels, Min(tunnels + 1, MaxTunnels)}

\* lines 155-158: os.environ["DBX_NGROK_TOKEN"] and the remote command
GenerateUrl ==
    /\ pc = "generate_url"
    /\ status' = "generating tunnel url"
    /\ \E o \in Outcomes :
          /\ Log("generate_url", o)
          /\ tunnels' \in Started(o)
          /\ Continue(o, "print_ssh_url")
    /\ UNCHANGED <<caller, tunnel_info, registry, keys, hist, apart, waited, slept, stable>>

\* line 165: the TunnelInfo built from what _parse_url returns
ParsedInfo(url) ==
    TunnelInfo(ParseUrl(url)[1], ParseUrl(url)[2], private_key_path(cluster_id))

\* lines 164-165 for each output of the remote command: None when _parse_url
\* raises, else the new TunnelInfo
ParseResults ==
    [url \in GoodUrls \cup OddUrls |->
        IF ParseUrlOk(url) THEN Some(ParsedInfo(url)) ELSE None]

\* lines 159-166: the remote command, _parse_url and the new TunnelInfo
PrintSshUrl ==
    /\ pc = "print_ssh_url"
    /\ status' = "generating tunnel url - done"
    /\ \E o \in Outcomes, url \in RawUrls :
          IF o = "ok" /\ ParseResults[url] # None
          THEN /\ trace' = Append(trace, <<"print_ssh_url", "ok", ParseResults[url][1]>>)
               /\ tunnel_info' = ParseResults[url]
               /\ established' = TRUE
               /\ pc' = "set"
          ELSE /\ Log("print_ssh_url", IF o = "ok" THEN "Exception" ELSE o)
               /\ tunnel_info' = tunnel_info
               /\ established' = established
               /\ Raise(IF o = "ok" THEN "Exception" ELSE o)
    /\ UNCHANGED <<caller, registry, keys, tunnels, reg_failed, reg_last, apart,
                   waited, slept, stable>>

PersistResultAborts(r) == Continue(ExcOf(r), "prepare_sshd")

\* lines 167-171: an Exception of SSHConfig.set is logged and dropped
PersistResult(r) == pc' = "prepare_sshd"

\* lines 167-171, 25-38
Persist ==
    /\ pc = "set"
    /\ \E r \in RegOutcomes :
          /\ Log("set", ExcOf(r))
          /\ RegistryWrite(SSHSet(conf, cluster_id, tunnel_info[1]), r)
          /\ PersistResult(r)
    /\ UNCHANGED <<caller, status, tunnel_info, keys, tunnels, reg_last, established,
                   apart, waited, slept, stable>>

\* lines 172, 89-97
PrepareSshd ==
    /\ pc = "prepare_sshd"
    /\ \E o \in Outcomes :
          /\ Log("prepare_sshd", o)
          /\ status' = IF o = "ok" THEN "preparing sshd service - done"
                       ELSE "preparing sshd service"
          /\ Continue(o, IF caller = "plain" THEN "sleep_plain" ELSE "sleep_final")
    /\ UNCHANGED <<caller, tunnel_info, registry, keys, tunnels, hist, apart, waited, slept, stable>>

CleanupKeepsInfo ==
    /\ pc = "cleanup"
    /\ \E r \in (IF SSHRemoveRaises(conf, cluster_id) THEN {"fail_pre"} ELSE RegOutcomes) :
          /\ Log("remove", ExcOf(r))
          /\ RegistryWrite(SSHRemove(conf, cluster_id), r)
          /\ pc' = IF r = "ok" THEN "sleep_fail" ELSE "crashed"
    /\ UNCHANGED <<caller, status, tunnel_info, established, keys, tunnels, reg_last,
                   apart, waited, slept, stable>>

\* lines 118-121: an exception of SSHConfig.remove is raised in the handler
\* and leaves tunnel_routine
Cleanup ==
    /\ pc = "cleanup"
    /\ tunnel_info' = None
    /\ established' = FALSE
    /\ \E r \in (IF SSHRemoveRaises(conf, cluster_id) THEN {"fail_pre"} ELSE RegOutcomes) :
          /\ Log("remove", ExcOf(r))
          /\ RegistryWrite(SSHRemove(conf, cluster_id), r)
          /\ pc' = IF r = "ok" THEN "sleep_fail" ELSE "crashed"
    /\ UNCHANGED <<caller, status, keys, tunnels, reg_last, apart, waited, slept, stable>>

\* line 122
SleepFail ==
    /\ pc = "sleep_fail"
    /\ pc' = "sleep_final"
    /\ slept' = slept + SleepAfterFailure
    /\ UNCHANGED <<caller, status, tunnel_info, registry, keys, tunnels, trace, hist, apart,
                   waited, stable>>

SleepFinalResets ==
    /\ pc = "sleep_final"
    /\ pc' = "head"
    /\ slept' = SleepNormal
    /\ UNCHANGED <<caller, status, tunnel_info, registry, keys, tunnels, trace, hist, apart,
                   waited, stable>>

\* line 123
SleepFinal ==
    /\ pc = "sleep_final"
    /\ pc' = "head"
    /\ slept' = slept + SleepNormal
    /\ UNCHANGED <<caller, status, tunnel_info, registry, keys, tunnels, trace, hist, apart,
                   waited, stable>>

\* line 127
SleepPlain ==
    /\ pc = "sleep_plain"
    /\ pc' = "head"
    /\ slept' = slept + SleepNormal
    /\ UNCHANGED <<caller, status, tunnel_info, registry, keys, tunnels, trace, hist, apart,
                   waited, stable>>

\* one step of tunnel_routine
Loop ==
    \/ LoopHead
    \/ SleepWait
    \/ Probe
    \/ SleepRun
    \/ InstallLibraries
    \/ StopNgrok
    \/ GenerateKeyPair
    \/ WriteLocalKey
    \/ InstallSshKeys
    \/ GenerateUrl
    \/ PrintSshUrl
    \/ Persist
    \/ PrepareSshd
    \/ Cleanup
    \/ SleepFail
    \/ SleepFinal
    \/ SleepPlain

\* the environment settles: the context stays running and every call succeeds
\* (not while a remove of a host without a block is pending, which raises)
Heal ==
    /\ ~stable
    /\ ~(pc = "cleanup" /\ SSHRemoveRaises(conf, cluster_id))
    /\ stable' = TRUE
    /\ UNCHANGED <<pc, caller, status, tunnel_info, registry, keys, tunnels, trace, hist, apart,
                   waited, slept>>

Next == Loop \/ Heal

Spec == Init /\ [][Next]_vars

\* the event loop runs tunnel_routine whenever it can take a step
FairSpec == Init /\ [][Next]_vars /\ WF_vars(Loop)

(***************************************************************************)
(* Construction over any ssh config, also one with a damaged block for     *)
(* cluster_id, followed by the loop.                                       *)
(***************************************************************************)
\* the block b with the line of key k deleted
Without(b, k) == [x \in DOMAIN b \ {k} |-> b[x]]

\* a "Host" line with no key below it
BareBlock == [host |-> cluster_id]

\* blocks for cluster_id with Port, Hostname or IdentityFile missing, or with
\* a Port that is not an integer
MalformedBlocks ==
    { Without(HostBlock(cluster_id, InfoA), "port"),
      Without(HostBlock(cluster_id, InfoA), "hostname"),
      Without(HostBlock(cluster_id, InfoA), "identityfile"),
      [HostBlock(cluster_id, InfoA) EXCEPT !.port = <<"x">>],
      [HostBlock(cluster_id, InfoA) EXCEPT !.port = <<>>] }

MalformedFiles ==
    {<<b>> : b \in MalformedBlocks}
       \cup {<<HostBlock(other_id, InfoOther), b>> : b \in MalformedBlocks}

CtorFiles == InitFiles \cup MalformedFiles \cup {<<BareBlock>>}

\* before TunnelManager(...) is called
CtorInit ==
    /\ pc = "new"
    /\ conf \in CtorFiles
    /\ disk = conf
    /\ tunnel_info = None
    /\ caller = "none"
    /\ status = "initializing"
    /\ new_key = 0
    /\ local_key \in (IF cluster_id \in Hosts(conf) THEN {1} ELSE {0, 1})
    /\ remote_key \in {0, 1}
    /\ trace = <<>>
    /\ reg_failed = FALSE
    /\ waited = 0
    /\ slept = 0
    /\ stable = FALSE
    /\ reg_last = <<>>
    /\ tunnels \in {0, 1}
    /\ established = FALSE
    /\ parsed = <<>>
    /\ fleet = <<>>

\* lines 69-75: __init__ reads the cached TunnelInfo; an error of
\* SSHConfig.get leaves the constructor
Construct ==
    /\ pc = "new"
    /\ IF SSHGetRaises(conf, cluster_id)
       THEN /\ pc' = "init_raised"
            /\ tunnel_info' = tunnel_info
       ELSE /\ pc' = "head"
            /\ tunnel_info' = SSHGet(conf, cluster_id)
    /\ UNCHANGED <<caller, status, registry, keys, tunnels, trace, hist, apart, waited, slept, stable>>

CtorNext == Construct \/ Next

CtorSpec == CtorInit /\ [][CtorNext]_vars

(***************************************************************************)
(* _parse_url alone, called on strings put together from a scheme, a host  *)
(* and what follows the host.                                              *)
(***************************************************************************)
UrlSchemes == {<<>>, SchemePrefix}

UrlHosts == {<<"a">>, <<"b", "1">>, <<"0", ".", "t", "c", "p", ".", "i", "o">>}

\* what follows the host, with the integer it stands for when it is ":" and
\* an integer literal of Python (None otherwise); decimal marks plain digits
UrlTail(text, value, decimal) == [text |-> text, value |-> value, decimal |-> decimal]

UrlTails ==
    { UrlTail(<<>>, None, FALSE),
      UrlTail(<<":">>, None, FALSE),
      UrlTail(<<":", "x">>, None, FALSE),
      UrlTail(<<":", "7", "x">>, None, FALSE),
      UrlTail(<<":", "7", ":", "8">>, None, FALSE),
      UrlTail(<<":", "7">>, Some(7), TRUE),
      UrlTail(<<":", "4", "0">>, Some(40), TRUE),
      UrlTail(<<":", "1", "2", "3", "4", "5">>, Some(12345), TRUE),
      UrlTail(<<":", "0", "0", "7">>, Some(7), TRUE),
      UrlTail(<<":", "-", "7">>, Some(0 - 7), FALSE),
      UrlTail(<<":", "+", "7">>, Some(7), FALSE),
      UrlTail(<<":", " ", "7">>, Some(7), FALSE),
      UrlTail(<<":", "1", "_", "0">>, Some(10), FALSE) }

ParseInit ==
    /\ pc = "parse"
    /\ \E s \in UrlSchemes, h \in UrlHosts, t \in UrlTails :
          parsed = [scheme |-> s, host |-> h, tail |-> t,
                    url |-> s \o h \o t.text, out |-> <<>>]
    /\ conf = <<>>
    /\ disk = <<>>
    /\ tunnel_info = None
    /\ caller = "none"
    /\ status = "initializing"
    /\ new_key = 0
    /\ local_key = 0
    /\ remote_key = 0
    /\ trace = <<>>
    /\ reg_failed = FALSE
    /\ waited = 0
    /\ slept = 0
    /\ stable = FALSE
    /\ reg_last = <<>>
    /\ tunnels = 0
    /\ established = FALSE
    /\ fleet = <<>>

\* lines 84-87: _parse_url(url) returns (host, port) or raises ValueError
ParseCall ==
    /\ pc = "parse"
    /\ pc' = "parsed"
    /\ parsed' = [parsed EXCEPT !.out = IF ParseUrlOk(parsed.url)
                                        THEN <<"ok", ParseUrl(parsed.url)>>
                                        ELSE <<"ValueError">>]
    /\ UNCHANGED <<caller, status, tunnel_info, registry, keys, tunnels, trace,
                   hist, fleet, waited, slept, stable>>

ParseNext == ParseCall

ParseSpec == ParseInit /\ [][ParseNext]_vars

(***************************************************************************)
(* The registry alone: any sequence of set and remove calls.               *)
(***************************************************************************)
RegInfos == {InfoA, InfoB, InfoOther}

RegInit ==
    /\ pc = "registry"
    /\ conf \in InitFiles
    /\ disk = conf
    /\ tunnel_info = None
    /\ caller = "none"
    /\ status = "initializing"
    /\ new_key = 0
    /\ local_key = 0
    /\ remote_key = 0
    /\ trace = <<>>
    /\ reg_failed = FALSE
    /\ waited = 0
    /\ slept = 0
    /\ stable = FALSE
    /\ reg_last = <<>>
    /\ tunnels = 0
    /\ established = FALSE
    /\ parsed = <<>>
    /\ fleet = <<>>

others == <<pc, caller, status, tunnel_info, keys, trace, waited, slept, stable,
            tunnels, established, apart>>

\* SSHConfig.set(id, info), lines 25-38
RegSet ==
    /\ pc = "registry"
    /\ \E id \in ClusterIds, info \in RegInfos, r \in RegOutcomes :
          /\ RegistryWrite(SSHSet(conf, id, info), r)
          /\ reg_last' = <<"set", id, info, r, conf>>
    /\ UNCHANGED others

\* SSHConfig.remove(id), lines 40-42
RegRemove ==
    /\ pc = "registry"
    /\ \E id \in ClusterIds :
          \E r \in (IF SSHRemoveRaises(conf, id) THEN {"fail_pre"} ELSE RegOutcomes) :
             /\ RegistryWrite(SSHRemove(conf, id), r)
             /\ reg_last' = <<"remove", id, None, r, conf>>
    /\ UNCHANGED others

RegNext == RegSet \/ RegRemove

RegSpec == RegInit /\ [][RegNext]_vars

(***************************************************************************)
(* Properties.                                                             *)
(***************************************************************************)
StatusWaiting == "waiting for the context"
StatusChecking == "checking cached tunnel url"
StatusPlain == "initializing a plain new tunnel"
StatusUnreachable == "tunnel is unreachable, initializing a new one"

EstablishmentOrder ==
    <<"install_libraries", "stop_ngrok", "generate_key_pair", "write_local_key",
      "install_ssh_keys", "generate_url", "print_ssh_url", "set", "prepare_sshd">>

EstablishmentOps == {EstablishmentOrder[i] : i \in 1..Len(EstablishmentOrder)}

(***************************************************************************)
(* Several TunnelManager instances whose tunnel_routine coroutines run on  *)
(* one asyncio event loop. Each instance has its own SSHConfig, read from  *)
(* the one ~/.ssh/config at construction. The thread of the event loop is  *)
(* held by one coroutine from the moment it is resumed until it reaches an *)
(* asyncio.sleep: _exec is a plain call (lines 77-78) and _check_tunnel,   *)
(* generate_key_pair and initialize_tunnel await nothing that suspends.    *)
(***************************************************************************)
Instances == {1, 2}

\* TunnelManager._cluster_id of each instance
FleetId(i) == IF i = 1 THEN cluster_id ELSE other_id

\* the TunnelInfo an establishment of instance i builds at line 165
FleetInfo(i) == IF i = 1 THEN InfoB ELSE InfoOther

\* the instance is suspended in asyncio.sleep, or was not resumed yet
SleepPositions ==
    {"start", "sleep_wait", "sleep_run", "sleep_fail", "sleep_final", "sleep_plain"}

\* calls that wait for the remote node: the remote commands, the transport
\* probe and _prepare_sshd
RemoteCalls ==
    {"probe", "install_libraries", "stop_ngrok", "install_ssh_keys",
     "generate_url", "print_ssh_url", "prepare_sshd"}

\* the call initialize_tunnel makes after op
NextCall(op) ==
    EstablishmentOrder[(CHOOSE k \in 1..Len(EstablishmentOrder) :
                           EstablishmentOrder[k] = op) + 1]

FleetInit ==
    /\ pc = "fleet"
    /\ disk \in InitFiles
    /\ fleet = [at |-> [i \in Instances |-> "start"],
                caller |-> [i \in Instances |-> "none"],
                conf |-> [i \in Instances |-> disk],
                info |-> [i \in Instances |-> SSHGet(disk, FleetId(i))],
                hung |-> [i \in Instances |-> FALSE],
                running |-> 0,
                last |-> 0]
    /\ conf = <<>>
    /\ tunnel_info = None
    /\ caller = "none"
    /\ status = "initializing"
    /\ new_key = 0
    /\ local_key = 0
    /\ remote_key = 0
    /\ trace = <<>>
    /\ reg_failed = FALSE
    /\ waited = 0
    /\ slept = 0
    /\ stable = FALSE
    /\ reg_last = <<>>
    /\ tunnels = 0
    /\ established = FALSE
    /\ parsed = <<>>

single == <<pc, caller, status, tunnel_info, conf, keys, tunnels, trace, hist,
            parsed, waited, slept, stable>>

\* the event loop resumes instance i: only when no coroutine holds the
\* thread. Lines 110 and 122 are followed by the sleep of line 123; any
\* other wake-up starts an iteration (lines 100-106, 124-125), which either
\* sleeps again at once (line 103) or keeps the thread for its calls
FleetWake(i) ==
    /\ pc = "fleet"
    /\ fleet.running = 0
    /\ fleet.at[i] \in SleepPositions
    /\ IF fleet.at[i] \in {"sleep_run", "sleep_fail"}
       THEN fleet' = [fleet EXCEPT !.at[i] = "sleep_final", !.last = i]
       ELSE \E s \in {"running", "pending"} :
               fleet' = IF s # "running"
                        THEN [fleet EXCEPT !.at[i] = "sleep_wait", !.last = i]
                        ELSE IF fleet.info[i] # None
                        THEN [fleet EXCEPT !.at[i] = "probe", !.caller[i] = "none",
                                           !.running = i, !.last = i]
                        ELSE [fleet EXCEPT !.at[i] = "install_libraries",
                                           !.caller[i] = "plain",
                                           !.running = i, !.last = i]
    /\ UNCHANGED <<disk, single>>

\* a call that waits for the remote node never returns (no timeout is set)
FleetHang(i) ==
    /\ pc = "fleet"
    /\ fleet.running = i
    /\ ~fleet.hung[i]
    /\ fleet.at[i] \in RemoteCalls
    /\ fleet' = [fleet EXCEPT !.hung[i] = TRUE, !.last = i]
    /\ UNCHANGED <<disk, single>>

\* lines 107-115: _check_tunnel returns or raises an Exception
FleetProbe(i) ==
    /\ pc = "fleet"
    /\ fleet.running = i
    /\ ~fleet.hung[i]
    /\ fleet.at[i] = "probe"
    /\ \E o \in {"ok", "Exception"} :
          fleet' = IF o = "ok"
                   THEN [fleet EXCEPT !.at[i] = "sleep_run", !.running = 0, !.last = i]
                   ELSE [fleet EXCEPT !.at[i] = "install_libraries",
                                      !.caller[i] = "reinit", !.last = i]
    /\ UNCHANGED <<disk, single>>

\* lines 129-165, 172: a call of initialize_tunnel other than SSHConfig.set
\* returns or raises an Exception (caught at line 118, not at line 126)
FleetEstablish(i) ==
    /\ pc = "fleet"
    /\ fleet.running = i
    /\ ~fleet.hung[i]
    /\ fleet.at[i] \in EstablishmentOps \ {"set"}
    /\ \E o \in {"ok", "Exception"} :
          fleet' = IF o # "ok"
                   THEN IF fleet.caller[i] = "reinit"
                        THEN [fleet EXCEPT !.at[i] = "cleanup", !.last = i]
                        ELSE [fleet EXCEPT !.at[i] = "crashed", !.running = 0,
                                           !.last = i]
                   ELSE IF fleet.at[i] = "prepare_sshd"
                   THEN [fleet EXCEPT !.at[i] = IF fleet.caller[i] = "plain"
                                                THEN "sleep_plain" ELSE "sleep_final",
                                      !.running = 0, !.last = i]
                   ELSE IF fleet.at[i] = "print_ssh_url"
                   THEN [fleet EXCEPT !.at[i] = "set", !.info[i] = Some(FleetInfo(i)),
                                      !.last = i]
                   ELSE [fleet EXCEPT !.at[i] = NextCall(fleet.at[i]), !.last = i]
    /\ UNCHANGED <<disk, single>>

\* lines 167-171, 25-38: set on the SSHConfig of instance i; save() writes
\* all the blocks this SSHConfig holds to the shared file
FleetPersist(i) ==
    /\ pc = "fleet"
    /\ fleet.running = i
    /\ fleet.at[i] = "set"
    /\ \E r \in {"ok", "fail_pre", "fail_save"} :
          LET newconf == SSHSet(fleet.conf[i], FleetId(i), fleet.info[i][1])
          IN  /\ fleet' = [fleet EXCEPT !.conf[i] = IF r = "fail_pre" THEN @ ELSE newconf,
                                         !.at[i] = "prepare_sshd", !.last = i]
              /\ disk' = IF r = "ok" THEN newconf ELSE disk
    /\ UNCHANGED single

\* lines 118-122, 40-42: the handler of a failed re-establishment
FleetCleanup(i) ==
    /\ pc = "fleet"
    /\ fleet.running = i
    /\ fleet.at[i] = "cleanup"
    /\ \E r \in (IF SSHRemoveRaises(fleet.conf[i], FleetId(i))
                 THEN {"fail_pre"} ELSE {"ok", "fail_pre", "fail_save"}) :
          LET newconf == SSHRemove(fleet.conf[i], FleetId(i))
          IN  /\ fleet' = [fleet EXCEPT !.conf[i] = IF r = "fail_pre" THEN @ ELSE newconf,
                                         !.info[i] = None,
                                         !.at[i] = IF r = "ok" THEN "sleep_fail"
                                                   ELSE "crashed",
                                         !.running = 0, !.last = i]
              /\ disk' = IF r = "ok" THEN newconf ELSE disk
    /\ UNCHANGED single

FleetStep(i) ==
    \/ FleetWake(i)
    \/ FleetHang(i)
    \/ FleetProbe(i)
    \/ FleetEstablish(i)
    \/ FleetPersist(i)
    \/ FleetCleanup(i)

FleetNext == \E i \in Instances : FleetStep(i)

FleetSpec == FleetInit /\ [][FleetNext]_vars

\* the calls initialize_tunnel has made in the current iteration
EstTrace == SelectSeq(trace, LAMBDA e : e[1] \in EstablishmentOps)

Logged(op, o) == \E i \in 1..Len(trace) : trace[i][1] = op /\ trace[i][2] = o

Called(op) == \E i \in 1..Len(trace) : trace[i][1] = op

\* initialize_tunnel raised an Exception in the current iteration
EstablishmentFailed ==
    \E i \in 1..Len(trace) :
        trace[i][1] \in (EstablishmentOps \ {"set"}) /\ trace[i][2] = "Exception"

\* the TunnelInfo built at line 165 in the current iteration
NewInfo == (CHOOSE e \in {trace[i] : i \in 1..Len(trace)} : e[1] = "print_ssh_url")[3]

\* the loop is suspended in asyncio.sleep, or is between two iterations
Suspended ==
    pc \in {"head", "sleep_wait", "sleep_run", "sleep_fail", "sleep_final", "sleep_plain"}

NoDuplicateHost(c) == \A i, j \in 1..Len(c) : c[i].host = c[j].host => i = j

\* C1: no failure terminates tunnel_routine: an Exception raised by any call
\* of any branch is caught inside the loop, which goes on to a next iteration
\* (pc "crashed": the exception has left tunnel_routine).
C1_NoFailureTerminatesLoop ==
    ~(pc = "crashed" /\ trace[Len(trace)][2] = "Exception")

\* C2: whenever initialize_tunnel has raised, from either branch, then once
\* the loop has handled it tunnel_info is null and the registry has no entry
\* for cluster_id (stated for runs in which no registry call has failed).
C2_FailedEstablishmentClearsBoth ==
    (EstablishmentFailed /\ pc # "cleanup" /\ ~reg_failed)
        => (tunnel_info = None /\ cluster_id \notin Hosts(conf))

\* C3: while the loop is suspended between iterations (and right after
\* construction), if no registry call has failed: a non-null tunnel_info has
\* an equal registry entry for cluster_id, in memory and in the file, and if
\* the registry holds no entry for cluster_id then tunnel_info is null.
C3_InfoMatchesRegistry ==
    (Suspended /\ ~reg_failed) =>
        /\ tunnel_info # None =>
              /\ cluster_id \in Hosts(conf)
              /\ ~SSHGetRaises(conf, cluster_id)
              /\ SSHGet(conf, cluster_id) = tunnel_info
              /\ disk = conf
        /\ cluster_id \notin Hosts(conf) => tunnel_info = None

C3_Witness ==
    /\ pc = "sleep_final"
    /\ ~reg_failed
    /\ Logged("prepare_sshd", "ok")
    /\ tunnel_info = Some(InfoB)
    /\ Len(conf) = 2

\* C4: initialize_tunnel makes its calls in the fixed order, each one only
\* after the one before it returned, except that a failed registry set does
\* not abort: tunnel_info stays the new TunnelInfo and prepare sshd is run.
C4_FixedOrderSetFailureTolerated ==
    /\ Len(EstTrace) <= Len(EstablishmentOrder)
    /\ \A i \in 1..Len(EstTrace) :
          /\ EstTrace[i][1] = EstablishmentOrder[i]
          /\ (i < Len(EstTrace) /\ EstTrace[i][1] # "set") => EstTrace[i][2] = "ok"
    /\ pc \in EstablishmentOps =>
          /\ Len(EstTrace) < Len(EstablishmentOrder)
          /\ pc = EstablishmentOrder[Len(EstTrace) + 1]
    /\ (pc = "sleep_plain" \/ (pc = "sleep_final" /\ caller = "reinit" /\ ~Called("remove")))
          => Len(EstTrace) = Len(EstablishmentOrder)
    /\ Called("set") => (pc = "prepare_sshd" \/ Called("prepare_sshd"))
    /\ (Called("set") /\ pc = "prepare_sshd") => tunnel_info = Some(NewInfo)
    /\ (Logged("prepare_sshd", "ok") /\ pc # "head") => tunnel_info = Some(NewInfo)

C4_Witness ==
    /\ Logged("set", "Exception")
    /\ Logged("prepare_sshd", "ok")
    /\ tunnel_info = Some(NewInfo)
    /\ cluster_id \notin Hosts(conf)

\* C5: an iteration that reads a context status other than "running" sets
\* the waiting status, makes no call and changes neither tunnel_info nor the
\* registry, and the status becomes waiting in no other way; an iteration
\* that reads "running" enters the probe or the establishment branch.
C5_WaitsExactlyWhileNotRunning ==
    [][ /\ (pc = "head" /\ pc' # "head") =>
              IF trace'[1][2] # "running"
              THEN /\ status' = StatusWaiting
                   /\ pc' = "sleep_wait"
                   /\ Len(trace') = 1
                   /\ UNCHANGED <<tunnel_info, conf, disk, keys, tunnels>>
              ELSE /\ status' # StatusWaiting
                   /\ pc' \in {"probe", "install_libraries"}
        /\ pc = "sleep_wait" =>
              /\ pc' \in {"sleep_wait", "head"}
              /\ UNCHANGED <<status, trace, tunnel_info, conf, disk, keys, tunnels>>
        /\ (status' = StatusWaiting /\ status # StatusWaiting) => pc = "head"
      ]_vars

C5_Witness ==
    /\ pc \in {"probe", "install_libraries"}
    /\ trace = <<<<"context", "running">>>>
    /\ waited = MaxWait

\* C6: in an iteration that finds the context running and tunnel_info null,
\* the status becomes the plain-establishment value, initialize_tunnel starts
\* at once and no liveness probe is made in that iteration.
C6_NoCachedInfoGoesStraightToEstablishment ==
    /\ (Len(trace) = 1 /\ trace[1][2] = "running" /\ tunnel_info = None) =>
          /\ status = StatusPlain
          /\ pc = "install_libraries"
          /\ caller = "plain"
    /\ caller = "plain" =>
          /\ trace[1] = <<"context", "running">>
          /\ ~Called("probe")
          /\ Len(trace) > 1 => trace[2][1] = "install_libraries"

C6_Witness ==
    /\ caller = "plain"
    /\ pc = "sleep_plain"
    /\ Logged("prepare_sshd", "ok")

ProbeJustEnded == trace # <<>> /\ trace[Len(trace)][1] = "probe"

Interrupted ==
    /\ caller # "plain"
    /\ \E i \in 1..Len(trace) : trace[i][2] = "KeyboardInterrupt"

\* C8: a KeyboardInterrupt raised in the cached-tunnel branch, by the probe
\* or by the re-establishment, does not leave tunnel_routine as a crash, and
\* after it the loop starts no further iteration.
C8_InterruptStopsLoopGracefully ==
    /\ [](Interrupted => pc # "crashed")
    /\ [][(Interrupted /\ pc = "head") => pc' = "head"]_vars

\* C9: once the context stays running and every call succeeds, the status
\* eventually becomes "running", whatever failed before.
C9_EventuallyRunning == stable ~> (status = "running")

\* C10: under any sequence of set and remove calls the registry holds at most
\* one entry per cluster_id, and set(id, info) leaves exactly one entry for id,
\* with the fields of info, and is a no-op when repeated.
C10_SetIsIdempotentUpsert ==
    /\ NoDuplicateHost(conf)
    /\ NoDuplicateHost(disk)
    /\ \A id \in ClusterIds, info \in RegInfos :
          LET once == SSHSet(conf, id, info)
          IN  /\ SSHSet(once, id, info) = once
              /\ Cardinality({i \in 1..Len(once) : once[i].host = id}) = 1
              /\ BlockOf(once, id) = HostBlock(id, info)
              /\ NoDuplicateHost(once)

C10_Witness ==
    /\ Len(reg_last) = 5
    /\ reg_last[1] = "set"
    /\ reg_last[4] = "ok"
    /\ reg_last[2] \in Hosts(reg_last[5])
    /\ Len(conf) = 2
    /\ conf = reg_last[5]
    /\ disk = conf

\* C11: round trip of the registry: whatever blocks the registry holds, with
\* or without one for the id, a set(id, info) that returns is followed by a
\* get(id) that does not raise and returns a TunnelInfo with the host, the
\* port as an integer and the private key file of info; the blocks saved to
\* the file read back the same.
C11_SetThenGetReturnsInfo ==
    /\ \A id \in ClusterIds, info \in RegInfos :
          /\ ~SSHGetRaises(SSHSet(conf, id, info), id)
          /\ SSHGet(SSHSet(conf, id, info), id) = Some(info)
    /\ (reg_last # <<>> /\ reg_last[1] = "set" /\ reg_last[4] = "ok")
          => /\ ~SSHGetRaises(conf, reg_last[2])
             /\ SSHGet(conf, reg_last[2]) = Some(reg_last[3])
             /\ SSHGet(conf, reg_last[2])[1].port \in Int
             /\ SSHGet(disk, reg_last[2]) = Some(reg_last[3])

\* a set over an existing block with other values (port 7 to port 40) returned
C11_Witness ==
    /\ reg_last # <<>> /\ reg_last[1] = "set" /\ reg_last[4] = "ok"
    /\ reg_last[2] \in Hosts(reg_last[5])
    /\ reg_last[3] = InfoB
    /\ SSHGet(reg_last[5], reg_last[2]) = Some(InfoA)
    /\ SSHGet(conf, reg_last[2]) = Some(InfoB)

\* C12: after a remove(id) that returns, get(id) is absent, in memory and in
\* the saved file; and a remove(id) of an id that has no block returns
\* without an error and leaves the blocks as they were.
C12_RemoveOfAbsentHostIsNoOp ==
    (reg_last # <<>> /\ reg_last[1] = "remove")
       => /\ reg_last[4] = "ok"
                => /\ SSHGet(conf, reg_last[2]) = None
                   /\ SSHGet(disk, reg_last[2]) = None
          /\ reg_last[2] \notin Hosts(reg_last[5])
                => /\ reg_last[4] = "ok"
                   /\ conf = reg_last[5]

\* the block of cluster_id lacks a key that get reads, or its Port is not an
\* integer
Malformed(c) ==
    /\ cluster_id \in Hosts(c)
    /\ \/ ~(RequiredKeys \subseteq DOMAIN BlockOf(c, cluster_id))
       \/ ~IsInt(BlockOf(c, cluster_id).port)

\* C13: over an ssh config whose block for cluster_id is malformed, get
\* raises no error (the constructor returns) and the reconciler starts with
\* tunnel_info null.
C13_MalformedBlockReadsAsAbsent ==
    Malformed(conf)
       => /\ pc # "init_raised"
          /\ (pc = "head" /\ trace = <<>>) => tunnel_info = None

InsideCall(i) ==
    /\ fleet.running = i
    /\ fleet.at[i] \in RemoteCalls \cup {"generate_key_pair"}

\* C15: every remote command, transport probe and key generation of one
\* instance is a point where it yields: while instance i is inside such a
\* call, also one that never returns, each other instance that is suspended
\* in a sleep can be resumed and take a step of its own loop.
C15_CallsYieldToOtherInstances ==
    (pc = "fleet")
       => \A i, j \in Instances :
             (i # j /\ InsideCall(i) /\ fleet.at[j] \in SleepPositions)
                => ENABLED FleetStep(j)

\* the block of id in the ssh config c, if any
EntryOf(c, id) == IF id \in Hosts(c) THEN Some(BlockOf(c, id)) ELSE None

\* C18: two instances manage different cluster_ids over the one registry
\* file: a step of one instance, in particular its set and remove, leaves
\* the entry that the file holds for the cluster_id of the other instance as
\* it was.
C18_SetAndRemoveKeepOtherEntry ==
    [][ (pc = "fleet")
           => \A i \in Instances :
                 fleet'.last # i
                    => EntryOf(disk', FleetId(i)) = EntryOf(disk, FleetId(i)) ]_vars

\* C16: at most one tunnel process runs on the remote node at any time, and
\* every start of a tunnel (generate_url) comes, within the same run of
\* initialize_tunnel, after a stop_ngrok that returned, with no other start
\* of a tunnel between the two.
C16_StopBeforeEveryStart ==
    /\ tunnels <= 1
    /\ \A i \in 1..Len(trace) :
          trace[i][1] = "generate_url"
             => \E j \in 1..(i - 1) :
                   /\ trace[j] = <<"stop_ngrok", "ok">>
                   /\ \A k \in (j + 1)..(i - 1) : trace[k][1] # "generate_url"

\* a re-establishment, made while the tunnel of an earlier establishment of
\* this process was unreachable, has started its tunnel
C16_Witness ==
    /\ pc = "print_ssh_url"
    /\ caller = "reinit"
    /\ established
    /\ Logged("stop_ngrok", "ok")
    /\ Logged("generate_url", "ok")
    /\ tunnels = 1

\* an iteration has run to its end and the next one has not begun
IterationDone == pc = "head" /\ trace # <<>>

\* C17: every completed iteration has suspended before the next begins, and
\* the sleeps of the cached-tunnel branch add up: the iteration has slept 5
\* units when it waited for the context, 5 after an establishment without a
\* cached tunnel, 5 after a re-establishment that succeeded, 7 after one
\* that failed, and 10 after a probe that succeeded.
C17_SuspensionPerIteration ==
    IterationDone
       => /\ slept > 0
          /\ trace[1][2] # "running" => slept = 5
          /\ (trace[1][2] = "running" /\ ~Called("probe")) => slept = 5
          /\ (Logged("probe", "Exception") /\ ~Called("remove")) => slept = 5
          /\ (Logged("probe", "Exception") /\ Called("remove")) => slept = 7
          /\ Logged("probe", "ok") => slept = 10

\* an iteration whose re-establishment failed has ended
C17_Witness ==
    /\ IterationDone
    /\ Logged("probe", "Exception")
    /\ Logged("remove", "ok")
    /\ slept = 7

\* C19: whenever the loop is suspended between or inside iterations and
\* tunnel_info is non-null as the result of an establishment of this process,
\* the private key in ~/.ssh/<cluster_id> is that of the pair last installed
\* on the remote node; and once an establishment that has replaced the local
\* key file has failed with an Exception and its handler has run, tunnel_info
\* is null unless the two keys match.
C19_LocalAndRemoteKeysMatch ==
    /\ (Suspended /\ tunnel_info # None /\ established)
          => (local_key # 0 /\ local_key = remote_key)
    /\ (Logged("write_local_key", "ok") /\ EstablishmentFailed /\ pc # "cleanup")
          => (tunnel_info = None \/ local_key = remote_key)

\* the loop sleeps after a re-establishment that replaced the key pair of an
\* earlier establishment on both sides
C19_Witness ==
    /\ pc = "sleep_final"
    /\ caller = "reinit"
    /\ established
    /\ tunnel_info # None
    /\ Logged("write_local_key", "ok")
    /\ Logged("install_ssh_keys", "ok")
    /\ local_key = new_key
    /\ remote_key = new_key

\* _prepare_sshd raised an Exception in the re-establishment of this iteration
PrepareFailedInReinit == caller = "reinit" /\ Logged("prepare_sshd", "Exception")

\* C20: when _prepare_sshd raises an Exception during a re-establishment
\* (the new TunnelInfo is already assigned, and persisted when set returned),
\* the handler runs: it sets tunnel_info to null and calls remove, which is
\* not refused for a persisted entry and, when it returns, has deleted the
\* entry in memory and in the file; the loop then sleeps, and the next
\* iteration that finds the context running starts a plain establishment
\* and does not probe.
C20_PrepareFailureIsCleanedUp ==
    /\ [](PrepareFailedInReinit
             => /\ pc = "cleanup" \/ Called("remove")
                /\ (pc = "cleanup" /\ Logged("set", "ok"))
                      => ~SSHRemoveRaises(conf, cluster_id)
                /\ Called("remove") => tunnel_info = None
                /\ Logged("remove", "ok")
                      => /\ cluster_id \notin Hosts(conf)
                         /\ cluster_id \notin Hosts(disk)
                         /\ pc \in {"sleep_fail", "sleep_final", "head"})
    /\ [][ (/\ PrepareFailedInReinit
            /\ Logged("remove", "ok")
            /\ pc = "head"
            /\ pc' # "head"
            /\ trace'[1][2] = "running")
              => /\ pc' = "install_libraries"
                 /\ caller' = "plain"
                 /\ status' = StatusPlain ]_vars

\* the iteration in which _prepare_sshd failed after a set that returned has
\* ended with the entry removed
C20_Witness ==
    /\ pc = "head"
    /\ PrepareFailedInReinit
    /\ Logged("set", "ok")
    /\ Logged("remove", "ok")
    /\ tunnel_info = None
    /\ cluster_id \notin Hosts(disk)
====
